---------------------------- MODULE Spec2Model ----------------------------
(***************************************************************************)
(* Model of the propositional-formula front end of Parser-Latex            *)
(* (src/main.py): the six automata of build_patterns, the LexicalAnalyser  *)
(* (get_next_token, peek_next_token, peek_peek_next_token) and the         *)
(* recursive-descent Parser.                                               *)
(*                                                                         *)
(* A line is a sequence of one-character strings that ends with the line   *)
(* terminator "\n".  next_character_position is 0-based as in the source;  *)
(* TLA+ sequences are 1-based, so the character under the cursor is        *)
(* content[next_character_position + 1].                                   *)
(***************************************************************************)
EXTENDS Integers, Sequences, FiniteSets, TLC

VARIABLES
    content,                 \* LexicalAnalyser.content / symbols: the line
    next_character_position, \* LexicalAnalyser.next_character_position
    states,                  \* states[i]: DeterministicFiniteAutomata.state of patterns[i]
    lastOp,                  \* the last call made on the scanner / parser
    lastResult,              \* what that call returned (token, no-token or error)
    prePos,                  \* next_character_position when that call started
    preStates,               \* automaton states when that call started
    firstPeek,               \* result of the first peek_next_token since the last other call
    formula,                 \* the formula a parsed line was rendered from
    variant,                 \* how the line was derived from the formula
    outcome,                 \* what Parser.parse returned or raised
    workers,                 \* the LexicalAnalyser/Parser pairs that run step by step
    tables                   \* tables[t]: the automaton states of pattern table t

vars == <<content, next_character_position, states, lastOp, lastResult,
          prePos, preStates, firstPeek, formula, variant, outcome,
          workers, tables>>

----------------------------------------------------------------------------
(* Characters *)

Letters == {"a","b","c","d","e","f","g","h","i","j","k","l","m",
            "n","o","p","q","r","s","t","u","v","w","x","y","z"}

Digits == {"0","1","2","3","4","5","6","7","8","9"}

\* ALPHABET = list(r"abcdefghijklmnopqrstuvwxyz0123456789\() ")
ALPHABET == Letters \cup Digits \cup {"\\", "(", ")", " "}

NEWLINE == "\n"

\* str.lower() on one character, for the upper-case letters lines may hold
UpperCase == <<"T", "E", "N">>
LowerCase == <<"t", "e", "n">>

lower(char) ==
    IF \E k \in 1..Len(UpperCase) : UpperCase[k] = char
    THEN LowerCase[CHOOSE k \in 1..Len(UpperCase) : UpperCase[k] = char]
    ELSE char

----------------------------------------------------------------------------
(* Guards: a lambda of build_patterns is modelled by the set of alphabet   *)
(* symbols it accepts (execute validates the symbol before any guard).     *)

Eq(c)    == {c}
\* Ne where the guard accepts every symbol
NeOverlapping(c) == ALPHABET

Ne(c)    == ALPHABET \ {c}
In(S)    == S
NotIn(S) == ALPHABET \ S
AnySymbol == ALPHABET

AlphaNum == Letters \cup Digits

constant_dfa ==
    [transactions |->
        { <<0, NotIn({"t", "f"}), 999>>,
          <<0, Eq("t"), 1>>, <<1, Eq("r"), 2>>, <<2, Eq("u"), 3>>,
          <<3, Eq("e"), 4>>, <<4, AnySymbol, 5>>,
          <<0, Eq("f"), 6>>, <<6, Eq("a"), 7>>, <<7, Eq("l"), 8>>,
          <<8, Eq("s"), 9>>, <<9, Eq("e"), 10>>, <<10, AnySymbol, 11>> },
     initial_state |-> 0,
     final_states |-> {4, 10}]

proposition_dfa ==
    [transactions |->
        { <<0, In(Digits), 1>>,
          <<0, NotIn(AlphaNum), 999>>,
          <<1, In(AlphaNum), 1>>,
          <<1, NotIn(AlphaNum), 999>> },
     initial_state |-> 0,
     final_states |-> {1}]

open_parenthesis_dfa ==
    [transactions |->
        { <<0, Eq("("), 1>>, <<0, Ne("("), 999>>, <<1, AnySymbol, 999>> },
     initial_state |-> 0,
     final_states |-> {1}]

close_parenthesis_dfa ==
    [transactions |->
        { <<0, Eq(")"), 1>>, <<1, AnySymbol, 999>>, <<0, Ne(")"), 999>> },
     initial_state |-> 0,
     final_states |-> {1}]

unary_operator_dfa ==
    [transactions |->
        { <<0, Eq("\\"), 1>>, <<0, Ne("\\"), 999>>,
          <<1, Eq("n"), 2>>, <<2, Eq("e"), 3>>, <<3, Eq("g"), 4>>,
          <<4, AnySymbol, 999>> },
     initial_state |-> 0,
     final_states |-> {4}]

binary_operator_dfa ==
    [transactions |->
        { <<0, Eq("\\"), 1>>, <<0, Ne("\\"), 999>>,
          \* wedge
          <<1, Eq("w"), 2>>, <<2, Eq("e"), 3>>, <<3, Eq("d"), 4>>,
          <<4, Eq("g"), 5>>, <<5, Eq("e"), 6>>, <<6, AnySymbol, 999>>,
          \* vee
          <<1, Eq("v"), 7>>, <<7, Eq("e"), 8>>, <<8, Eq("e"), 9>>,
          <<9, AnySymbol, 999>>,
          \* rightarrow
          <<1, Eq("r"), 10>>, <<10, Eq("i"), 11>>, <<11, Eq("g"), 12>>,
          <<12, Eq("h"), 13>>, <<13, Eq("t"), 14>>, <<14, Eq("a"), 15>>,
          <<15, Eq("r"), 16>>, <<16, Eq("r"), 17>>, <<17, Eq("o"), 18>>,
          <<18, Eq("w"), 19>>, <<19, AnySymbol, 999>>,
          \* leftrightarrow
          <<1, Eq("l"), 20>>, <<20, Eq("e"), 21>>, <<21, Eq("f"), 22>>,
          <<22, Eq("t"), 23>>, <<23, Eq("r"), 24>>, <<24, Eq("i"), 25>>,
          <<25, Eq("g"), 26>>, <<26, Eq("h"), 27>>, <<27, Eq("t"), 28>>,
          <<28, Eq("a"), 29>>, <<29, Eq("r"), 30>>, <<30, Eq("r"), 31>>,
          <<31, Eq("o"), 32>>, <<32, Eq("w"), 33>>, <<33, AnySymbol, 999>> },
     initial_state |-> 0,
     final_states |-> {6, 9, 19, 33}]

\* class Lexeme: the kinds, in the order of the pattern table
Lexeme == <<"CONSTANT", "PROPOSITION", "OPEN_PARENTHESIS",
            "CLOSE_PARENTHESIS", "UNARY_OPERATOR", "BINARY_OPERATOR">>

\* build_patterns(): the ordered pattern table
build_patterns ==
    <<constant_dfa, proposition_dfa, open_parenthesis_dfa,
      close_parenthesis_dfa, unary_operator_dfa, binary_operator_dfa>>

NumPatterns == Len(Lexeme)

\* the automaton states of a freshly built pattern table
InitialStates ==
    << constant_dfa.initial_state, proposition_dfa.initial_state,
       open_parenthesis_dfa.initial_state, close_parenthesis_dfa.initial_state,
       unary_operator_dfa.initial_state, binary_operator_dfa.initial_state >>

----------------------------------------------------------------------------
(* DeterministicFiniteAutomata *)

\* the final states of the automata, in table order
FinalStates ==
    << constant_dfa.final_states, proposition_dfa.final_states,
       open_parenthesis_dfa.final_states, close_parenthesis_dfa.final_states,
       unary_operator_dfa.final_states, binary_operator_dfa.final_states >>

\* in_final_state of automaton i when its state is s
in_final_state(i, s) == s \in FinalStates[i]

\* the transactions of automaton i that fire on symbol in state s
Firing(i, s, symbol) ==
    {t \in build_patterns[i].transactions : t[1] = s /\ symbol \in t[2]}

\* the state the loop of execute leaves: the first firing transaction sets
\* the state; with none the state is left as it is
FirstFiring(firing, s) ==
    IF firing = {} THEN s ELSE (CHOOSE t \in firing : TRUE)[3]

\* the loop of execute(symbol), after validation
execute_loop(i, s, symbol) == FirstFiring(Firing(i, s, symbol), s)

\* the states automaton i can be in
StatesOf(i) ==
    {0} \cup UNION { {t[1], t[3]} : t \in build_patterns[i].transactions }

\* execute_loop tabulated for every automaton, state and symbol
TransitionTable ==
    [i \in 1..NumPatterns |->
        [s \in StatesOf(i) |->
            [symbol \in ALPHABET |-> execute_loop(i, s, symbol)]]]

\* execute(symbol) on automaton i in state s, for a validated symbol
execute(i, s, symbol) == TransitionTable[i][s][symbol]

\* validate_symbol_symbols_in_alphabet: TRUE when the symbol passes
validate_symbol_symbols_in_alphabet(symbol) == symbol \in ALPHABET

\* reset_dfas() where no automaton is reset
reset_dfas_skipped(sts) == sts

\* reset_dfas(): every automaton back to its initial state
reset_dfas(sts) == InitialStates

----------------------------------------------------------------------------
(* LexicalAnalyser.  A scan returns the record                             *)
(*   [pos, sts, kind, word, err]                                           *)
(* pos and sts are the cursor and the automaton states the scan leaves     *)
(* behind; kind is the Lexeme of the token, "None" for no-token, "Error"   *)
(* when the scan raised; err names the exception ("ok" for none).          *)

NoWord == <<>>

Token(pos, sts, kind, word) ==
    [pos |-> pos, sts |-> sts, kind |-> kind, word |-> word, err |-> "ok"]

\* NoToken where the cursor is left one place further on
NoTokenPastEnd(pos, sts) ==
    [pos |-> pos + 1, sts |-> sts, kind |-> "None", word |-> NoWord, err |-> "ok"]

NoToken(pos, sts) ==
    [pos |-> pos, sts |-> sts, kind |-> "None", word |-> NoWord, err |-> "ok"]

\* Raised where the scan gives up with no-token instead of raising
RaisedAsNoToken(pos, sts, err) ==
    [pos |-> pos, sts |-> sts, kind |-> "None", word |-> NoWord, err |-> "ok"]

Raised(pos, sts, err) ==
    [pos |-> pos, sts |-> sts, kind |-> "Error", word |-> NoWord, err |-> err]

\* what the caller sees of a scan: the token (or no-token, or the exception)
Returned(r) == [kind |-> r.kind, word |-> r.word, err |-> r.err]

\* self.symbols[self.next_character_position] is inside the line
InLine(line, pos) == pos >= 0 /\ pos < Len(line)

\* end_of_file where the terminator is never seen
end_of_file_never(line, pos) == FALSE

\* end_of_file: self.content[self.next_character_position] == "\n"
end_of_file(line, pos) == line[pos + 1] = NEWLINE

\* peek(): the character under the cursor, lower-cased, cursor not moved
peek(line, pos) == lower(line[pos + 1])

\* next_character(): the lower-cased character under the cursor; the cursor
\* moves one place (the caller takes pos + 1)
next_character(line, pos) == lower(line[pos + 1])

RECURSIVE get_next_token_while(_, _, _, _)
RECURSIVE get_next_token_munch(_, _, _, _, _)
RECURSIVE ExecutedFrom(_, _, _)

\* get_next_token_munch_executed where the character that ends the match
\* is consumed into the token as well
get_next_token_munch_consuming(line, pos, sts, word, symbol, i) ==
    IF in_final_state(i, sts[i])
    THEN get_next_token_munch(line, pos + 1, sts, Append(word, symbol), i)
    ELSE Token(pos + 1, sts, Lexeme[i], Append(word, symbol))

\* the inner while of get_next_token once automaton i has executed the
\* character under the cursor (sts holds its new state): the character is
\* consumed only when the automaton stays final
get_next_token_munch_executed(line, pos, sts, word, symbol, i) ==
    IF in_final_state(i, sts[i])
    THEN get_next_token_munch(line, pos + 1, sts, Append(word, symbol), i)
    ELSE Token(pos, sts, Lexeme[i], word)

\* the inner "while dfa.in_final_state and not self.end_of_file" of
\* get_next_token, run on automaton i: the character under the cursor is
\* executed first and consumed afterwards
get_next_token_munch(line, pos, sts, word, i) ==
    IF ~in_final_state(i, sts[i]) THEN Token(pos, sts, Lexeme[i], word)
    ELSE IF ~InLine(line, pos) THEN Raised(pos, sts, "IndexError")
    ELSE IF end_of_file(line, pos) THEN Token(pos, sts, Lexeme[i], word)
    ELSE LET symbol == peek(line, pos)
         IN  IF ~validate_symbol_symbols_in_alphabet(symbol)
             THEN Raised(pos, sts, "AlphabetError")
             ELSE get_next_token_munch_executed(line, pos,
                      [sts EXCEPT ![i] = execute(i, sts[i], symbol)],
                      word, symbol, i)

\* the automaton states from automaton i on, each having executed the symbol
ExecutedFrom(sts, symbol, i) ==
    IF i > NumPatterns THEN <<>>
    ELSE <<execute(i, sts[i], symbol)>> \o ExecutedFrom(sts, symbol, i + 1)

\* the automaton states when every automaton has executed the symbol
ExecutedAll(sts, symbol) == ExecutedFrom(sts, symbol, 1)

\* "for pattern in self.patterns" of get_next_token: the automata execute
\* the symbol in table order and the loop is left at the first automaton
\* found final.  Each automaton moves on its own state only, so that
\* automaton is the first in table order that the symbol makes final
\* (0 when there is none); executed is ExecutedAll(sts, symbol)
FirstFinal(executed) ==
    IF \A i \in 1..NumPatterns : ~in_final_state(i, executed[i]) THEN 0
    ELSE CHOOSE i \in 1..NumPatterns :
            /\ in_final_state(i, executed[i])
            /\ \A j \in 1..(i - 1) : ~in_final_state(j, executed[j])

\* the automaton states when the for loop is left at automaton last: the
\* automata after it have not executed the symbol
ExecutedUpTo(sts, executed, last) ==
    SubSeq(executed, 1, last) \o SubSeq(sts, last + 1, NumPatterns)

\* self.reset_dfas() before the token is returned; an exception in the
\* extension of the match leaves the automata as they are
get_next_token_reset(m) ==
    IF m.err # "ok" THEN m ELSE [m EXCEPT !.sts = reset_dfas(m.sts)]

\* the token get_next_token returns once automaton i is final: the match
\* is extended, all automata are reset and the token is returned
get_next_token_return(line, pos, sts, word, i) ==
    get_next_token_reset(get_next_token_munch(line, pos, sts, word, i))

\* the body of the outer while once the symbol is consumed and executed:
\* with no automaton final the loop goes on with the next character
get_next_token_for(line, pos, sts, executed, first, word) ==
    IF first = 0
    THEN get_next_token_while(line, pos, executed, word)
    ELSE get_next_token_return(line, pos, ExecutedUpTo(sts, executed, first),
                               word, first)

\* the for loop from the states the automata reach on the symbol
get_next_token_executed(line, pos, sts, executed, word) ==
    get_next_token_for(line, pos, sts, executed, FirstFinal(executed), word)

\* "while not self.end_of_file ... else: return None" of get_next_token:
\* at the terminator the scan returns None and resets nothing; the first
\* execute of a character outside the alphabet raises, after the cursor
\* has moved past it
get_next_token_while(line, pos, sts, word) ==
    IF ~InLine(line, pos) THEN Raised(pos, sts, "IndexError")
    ELSE IF end_of_file(line, pos) THEN NoToken(pos, sts)
    ELSE LET symbol == next_character(line, pos)
         IN  IF ~validate_symbol_symbols_in_alphabet(symbol)
             THEN Raised(pos + 1, sts, "AlphabetError")
             ELSE get_next_token_executed(line, pos + 1, sts,
                      ExecutedAll(sts, symbol), Append(word, symbol))

\* get_next_token where no leading space is skipped
get_next_token_no_skip(line, pos, sts) ==
    IF ~InLine(line, pos) THEN Raised(pos, sts, "IndexError")
    ELSE get_next_token_while(line, pos, sts, NoWord)

\* get_next_token(): one leading space is skipped, then the scan loop runs
get_next_token(line, pos, sts) ==
    IF ~InLine(line, pos) THEN Raised(pos, sts, "IndexError")
    ELSE get_next_token_while(line,
             IF peek(line, pos) = " " THEN pos + 1 ELSE pos, sts, NoWord)

\* the caller's cursor stays where it was: the scan ran on a copy
KeepCursor(r, pos) == [r EXCEPT !.pos = pos]

\* peek_next_token(): s = copy.copy(self) copies the cursor and shares the
\* pattern table, so the scan runs from the caller's automaton states and
\* leaves its own behind; the caller's cursor stays where it was
peek_next_token(line, pos, sts) ==
    KeepCursor(get_next_token(line, pos, sts), pos)

\* the second scan of peek_peek_next_token, from the cursor and the
\* automaton states the first scan r1 left
peek_peek_second(line, r1) ==
    IF r1.err # "ok" THEN r1 ELSE get_next_token(line, r1.pos, r1.sts)

\* peek_peek_next_token(): two scans on shallow copies, the second from the
\* cursor the first one reached; the automata are shared throughout
peek_peek_next_token(line, pos, sts) ==
    KeepCursor(peek_peek_second(line, get_next_token(line, pos, sts)), pos)

----------------------------------------------------------------------------
(* AST nodes *)

FormulaNode(child) == [type |-> "FormulaNode", child |-> child]
ConstantNode(value) == [type |-> "ConstantNode", value |-> value]
PropositionNode(value) == [type |-> "PropositionNode", value |-> value]
NegationFormulaNode(child) == [type |-> "NegationFormulaNode", child |-> child]

BinaryFormulaNode(type, left_child, right_child) ==
    [type |-> type, left_child |-> left_child, right_child |-> right_child]

NoNode == [type |-> "NoNode"]

\* the operator texts parse_binary_operator compares the token text with
WEDGE == <<"\\", "w", "e", "d", "g", "e">>
VEE == <<"\\", "v", "e", "e">>
RIGHTARROW == <<"\\", "r", "i", "g", "h", "t", "a", "r", "r", "o", "w">>
LEFTRIGHTARROW ==
    <<"\\", "l", "e", "f", "t", "r", "i", "g", "h", "t", "a", "r", "r", "o", "w">>

----------------------------------------------------------------------------
(* Parser.  A parse step returns the record                                *)
(*   [pos, sts, err, node, failed_in]                                      *)
(* err is "ok" or the exception that ended the parse: "SyntaxError" is the *)
(* parser's bare raise Exception(), "AlphabetError" the exception of       *)
(* validate_symbol_symbols_in_alphabet, "TypeError" the subscript of a     *)
(* None token, "AssertionError" the assert of parse_proposition;           *)
(* failed_in is the function that raised.                                  *)

Parsed(pos, sts, node) ==
    [pos |-> pos, sts |-> sts, err |-> "ok", node |-> node, failed_in |-> "nowhere"]

Failed(pos, sts, err, where) ==
    [pos |-> pos, sts |-> sts, err |-> err, node |-> NoNode, failed_in |-> where]

\* a scanner call made by parser function where: the exception of the scan
\* propagates; token[0] / token[1] on None raises TypeError in the caller
ScanFailure(t, where) ==
    IF t.err # "ok"
    THEN Failed(t.pos, t.sts, t.err, "validate_symbol_symbols_in_alphabet")
    ELSE Failed(t.pos, t.sts, "TypeError", where)

Unusable(t) == t.err # "ok" \/ t.kind = "None"

RECURSIVE parse(_, _, _)

\* parse_constant once the token is read
parse_constant_token(token) ==
    IF Unusable(token) THEN ScanFailure(token, "parse_constant")
    ELSE IF token.kind = "CONSTANT"
         THEN Parsed(token.pos, token.sts, ConstantNode(token.word))
         ELSE Failed(token.pos, token.sts, "SyntaxError", "parse_constant")

parse_constant(line, pos, sts) ==
    parse_constant_token(get_next_token(line, pos, sts))

\* parse_proposition once the token is read
parse_proposition_token(token) ==
    IF Unusable(token) THEN ScanFailure(token, "parse_proposition")
    ELSE IF token.kind = "PROPOSITION"
         THEN Parsed(token.pos, token.sts, PropositionNode(token.word))
         ELSE Failed(token.pos, token.sts, "AssertionError", "parse_proposition")

parse_proposition(line, pos, sts) ==
    parse_proposition_token(get_next_token(line, pos, sts))

\* parse_open_parenthesis once the token is read
parse_open_parenthesis_token(token) ==
    IF Unusable(token) THEN ScanFailure(token, "parse_open_parenthesis")
    ELSE IF token.kind = "OPEN_PARENTHESIS"
         THEN Parsed(token.pos, token.sts, [type |-> "OpenParenthesisNode"])
         ELSE Failed(token.pos, token.sts, "SyntaxError", "parse_open_parenthesis")

parse_open_parenthesis(line, pos, sts) ==
    parse_open_parenthesis_token(get_next_token(line, pos, sts))

\* parse_close_parenthesis once the token is read
parse_close_parenthesis_token(token) ==
    IF Unusable(token) THEN ScanFailure(token, "parse_close_parenthesis")
    ELSE IF token.kind = "CLOSE_PARENTHESIS"
         THEN Parsed(token.pos, token.sts, [type |-> "CloseParenthesisNode"])
         ELSE Failed(token.pos, token.sts, "SyntaxError", "parse_close_parenthesis")

parse_close_parenthesis(line, pos, sts) ==
    parse_close_parenthesis_token(get_next_token(line, pos, sts))

\* parse_unary_operator once the token is read
parse_unary_operator_token(token) ==
    IF Unusable(token) THEN ScanFailure(token, "parse_unary_operator")
    ELSE IF token.kind = "UNARY_OPERATOR"
         THEN Parsed(token.pos, token.sts, [type |-> "NegationOperatorNode"])
         ELSE Failed(token.pos, token.sts, "SyntaxError", "parse_unary_operator")

parse_unary_operator(line, pos, sts) ==
    parse_unary_operator_token(get_next_token(line, pos, sts))

\* parse_binary_operator once the token is read: the operator node is
\* chosen by the token text alone
parse_binary_operator_token(token) ==
    IF Unusable(token) THEN ScanFailure(token, "parse_binary_operator")
    ELSE IF token.word = WEDGE
         THEN Parsed(token.pos, token.sts, [type |-> "AndOperatorNode"])
    ELSE IF token.word = VEE
         THEN Parsed(token.pos, token.sts, [type |-> "OrOperatorNode"])
    ELSE IF token.word = RIGHTARROW
         THEN Parsed(token.pos, token.sts, [type |-> "ImpliesOperatorNode"])
    ELSE IF token.word = LEFTRIGHTARROW
         THEN Parsed(token.pos, token.sts, [type |-> "BiConditionalOperatorNode"])
    ELSE Failed(token.pos, token.sts, "SyntaxError", "parse_binary_operator")

parse_binary_operator(line, pos, sts) ==
    parse_binary_operator_token(get_next_token(line, pos, sts))

\* the formula node parse_binary_formula builds for an operator node
BinaryNodeType(operator_type) ==
    CASE operator_type = "AndOperatorNode" -> "AndFormulaNode"
      [] operator_type = "OrOperatorNode" -> "OrFormulaNode"
      [] operator_type = "ImpliesOperatorNode" -> "ImpliesFormulaNode"
      [] operator_type = "BiConditionalOperatorNode" -> "BiConditionalFormulaNode"
      [] OTHER -> "NoNode"

(* parse_unary_formula and parse_binary_formula run their steps in order;  *)
(* the first step that raises ends the parse.  Each step below takes the   *)
(* results of the steps before it and runs the rest of the function.       *)

\* parse_unary_formula: return NegationFormulaNode(..., child, ...)
parse_unary_formula_return(child, close) ==
    IF close.err # "ok" THEN close
    ELSE Parsed(close.pos, close.sts, NegationFormulaNode(child.node))

\* parse_unary_formula: close = self.parse_close_parenthesis()
parse_unary_formula_close(line, child) ==
    IF child.err # "ok" THEN child
    ELSE parse_unary_formula_return(child,
             parse_close_parenthesis(line, child.pos, child.sts))

\* parse_unary_formula: child = self.parse()
parse_unary_formula_child(line, operator) ==
    IF operator.err # "ok" THEN operator
    ELSE parse_unary_formula_close(line,
             parse(line, operator.pos, operator.sts))

\* parse_unary_formula: operator = self.parse_unary_operator()
parse_unary_formula_operator(line, open) ==
    IF open.err # "ok" THEN open
    ELSE parse_unary_formula_child(line,
             parse_unary_operator(line, open.pos, open.sts))

parse_unary_formula(line, pos, sts) ==
    parse_unary_formula_operator(line,
        parse_open_parenthesis(line, pos, sts))

\* parse_binary_formula_return with the operands exchanged
parse_binary_formula_return_swapped(binary_operator, left_child, right_child, close) ==
    IF close.err # "ok" THEN close
    ELSE Parsed(close.pos, close.sts,
                BinaryFormulaNode(BinaryNodeType(binary_operator.node.type),
                                  right_child.node, left_child.node))

\* parse_binary_formula: the node returned for the operator node
parse_binary_formula_return(binary_operator, left_child, right_child, close) ==
    IF close.err # "ok" THEN close
    ELSE IF BinaryNodeType(binary_operator.node.type) = "NoNode"
         THEN Failed(close.pos, close.sts, "SyntaxError", "parse_binary_formula")
         ELSE Parsed(close.pos, close.sts,
                     BinaryFormulaNode(BinaryNodeType(binary_operator.node.type),
                                       left_child.node, right_child.node))

\* parse_binary_formula: close = self.parse_close_parenthesis()
parse_binary_formula_close(line, binary_operator, left_child, right_child) ==
    IF right_child.err # "ok" THEN right_child
    ELSE parse_binary_formula_return(binary_operator, left_child, right_child,
             parse_close_parenthesis(line, right_child.pos, right_child.sts))

\* parse_binary_formula: right_child = self.parse()
parse_binary_formula_right_child(line, binary_operator, left_child) ==
    IF left_child.err # "ok" THEN left_child
    ELSE parse_binary_formula_close(line, binary_operator, left_child,
             parse(line, left_child.pos, left_child.sts))

\* parse_binary_formula: left_child = self.parse()
parse_binary_formula_left_child(line, binary_operator) ==
    IF binary_operator.err # "ok" THEN binary_operator
    ELSE parse_binary_formula_right_child(line, binary_operator,
             parse(line, binary_operator.pos, binary_operator.sts))

\* parse_binary_formula: binary_operator = self.parse_binary_operator()
parse_binary_formula_operator(line, open) ==
    IF open.err # "ok" THEN open
    ELSE parse_binary_formula_left_child(line,
             parse_binary_operator(line, open.pos, open.sts))

parse_binary_formula(line, pos, sts) ==
    parse_binary_formula_operator(line,
        parse_open_parenthesis(line, pos, sts))

\* parse_parenthesised without the second lookahead: always binary
parse_parenthesised_binary(line, pos, next_token) ==
    IF Unusable(next_token) THEN ScanFailure(next_token, "parse")
    ELSE parse_binary_formula(line, pos, next_token.sts)

\* the production parse() selects after an open parenthesis, from the
\* second lookahead token next_token = peek_peek_next_token()
parse_parenthesised(line, pos, next_token) ==
    IF Unusable(next_token) THEN ScanFailure(next_token, "parse")
    ELSE IF next_token.kind = "UNARY_OPERATOR"
         THEN parse_unary_formula(line, pos, next_token.sts)
         ELSE parse_binary_formula(line, pos, next_token.sts)

\* parse_child where an unexpected token is handed to parse_proposition
parse_child_default(line, pos, sts, token) ==
    IF token.kind = "CONSTANT" THEN parse_constant(line, pos, sts)
    ELSE IF token.kind = "OPEN_PARENTHESIS"
         THEN parse_parenthesised(line, pos,
                  peek_peek_next_token(line, pos, sts))
    ELSE parse_proposition(line, pos, sts)

\* the child node parse() wraps, selected by the first lookahead token
parse_child(line, pos, sts, token) ==
    IF token.kind = "CONSTANT" THEN parse_constant(line, pos, sts)
    ELSE IF token.kind = "PROPOSITION" THEN parse_proposition(line, pos, sts)
    ELSE IF token.kind = "OPEN_PARENTHESIS"
         THEN parse_parenthesised(line, pos,
                  peek_peek_next_token(line, pos, sts))
    ELSE Failed(pos, sts, "SyntaxError", "parse")

\* parse(): return FormulaNode(child_node)
parse_return(child_node) ==
    IF child_node.err # "ok" THEN child_node
    ELSE Parsed(child_node.pos, child_node.sts, FormulaNode(child_node.node))

\* parse() once the first lookahead token = peek_next_token() is read
parse_token(line, pos, token) ==
    IF Unusable(token) THEN ScanFailure(token, "parse")
    ELSE parse_return(parse_child(line, pos, token.sts, token))

parse(line, pos, sts) ==
    parse_token(line, pos, peek_next_token(line, pos, sts))

----------------------------------------------------------------------------
(* Formulas of the grammar                                                 *)
(*   Formula := Constant | Proposition | "(" UnaryOp Formula ")"           *)
(*            | "(" BinaryOp Formula Formula ")"                           *)
(* and their canonical rendering.                                          *)

\* the largest number of nodes of a formula that is rendered and parsed
MaxFormulaSize == 4

\* the largest number of nodes of a formula whose rendering is cut at every
\* position to take a character outside the alphabet
MaxCutSize == 3

TRUE_TEXT == <<"t", "r", "u", "e">>
FALSE_TEXT == <<"f", "a", "l", "s", "e">>
NEG == <<"\\", "n", "e", "g">>

Constants == { [op |-> "Constant", text |-> TRUE_TEXT],
               [op |-> "Constant", text |-> FALSE_TEXT] }

Propositions == { [op |-> "Proposition", text |-> <<"1">>],
                  [op |-> "Proposition", text |-> <<"2">>] }

BinaryOps == {"And", "Or", "Implies", "BiConditional"}

Neg(f) == [op |-> "Negation", child |-> f]
Bin(o, l, r) == [op |-> o, left |-> l, right |-> r]

\* the formulas with exactly n nodes
FormulasOfSize[n \in 1..MaxFormulaSize] ==
    IF n = 1 THEN Constants \cup Propositions
    ELSE {Neg(f) : f \in FormulasOfSize[n - 1]}
         \cup UNION { {Bin(o, l, r) : o \in BinaryOps,
                                      l \in FormulasOfSize[k],
                                      r \in FormulasOfSize[n - 1 - k]}
                      : k \in 1..(n - 2) }

Formulas == UNION {FormulasOfSize[n] : n \in 1..MaxFormulaSize}

CutFormulas ==
    UNION {FormulasOfSize[n] : n \in 1..MaxFormulaSize \cap 1..MaxCutSize}

IsAtom(f) == f.op \in {"Constant", "Proposition"}

OpText(o) ==
    CASE o = "And" -> WEDGE
      [] o = "Or" -> VEE
      [] o = "Implies" -> RIGHTARROW
      [] o = "BiConditional" -> LEFTRIGHTARROW

RECURSIVE Render(_)
\* canonical text: tokens inside parentheses separated by exactly one space
Render(f) ==
    CASE f.op \in {"Constant", "Proposition"} -> f.text
      [] f.op = "Negation" ->
            <<"(">> \o NEG \o <<" ">> \o Render(f.child) \o <<")">>
      [] OTHER ->
            <<"(">> \o OpText(f.op) \o <<" ">> \o Render(f.left)
                    \o <<" ">> \o Render(f.right) \o <<")">>

RECURSIVE RenderParenthesised(_, _)
\* the same text with every operand that is an atom written "(" atom ")"
RenderParenthesised(f, operand) ==
    CASE f.op \in {"Constant", "Proposition"} ->
            IF operand THEN <<"(">> \o f.text \o <<")">> ELSE f.text
      [] f.op = "Negation" ->
            <<"(">> \o NEG \o <<" ">> \o RenderParenthesised(f.child, TRUE)
                    \o <<")">>
      [] OTHER ->
            <<"(">> \o OpText(f.op) \o <<" ">>
                    \o RenderParenthesised(f.left, TRUE) \o <<" ">>
                    \o RenderParenthesised(f.right, TRUE) \o <<")">>

\* "(" BinaryOp F ")": a binary formula written without its second operand
RenderMissingOperand(f) ==
    <<"(">> \o OpText(f.op) \o <<" ">> \o Render(f.left) \o <<")">>

RECURSIVE Shape(_)
\* the formula a tree of AST nodes stands for: the FormulaNode wrappers are
\* dropped, left_child is the first operand and right_child the second
Shape(node) ==
    CASE node.type = "FormulaNode" -> Shape(node.child)
      [] node.type = "ConstantNode" -> [op |-> "Constant", text |-> node.value]
      [] node.type = "PropositionNode" -> [op |-> "Proposition", text |-> node.value]
      [] node.type = "NegationFormulaNode" -> Neg(Shape(node.child))
      [] node.type = "AndFormulaNode" ->
            Bin("And", Shape(node.left_child), Shape(node.right_child))
      [] node.type = "OrFormulaNode" ->
            Bin("Or", Shape(node.left_child), Shape(node.right_child))
      [] node.type = "ImpliesFormulaNode" ->
            Bin("Implies", Shape(node.left_child), Shape(node.right_child))
      [] node.type = "BiConditionalFormulaNode" ->
            Bin("BiConditional", Shape(node.left_child), Shape(node.right_child))
      [] OTHER -> [op |-> "None"]

\* a character outside ALPHABET
BadChar == "#"

\* what follows a formula and one space on a line with trailing content
Tails ==
    << <<>>, <<BadChar>>, <<"1">>, <<")">>, <<" ", "(">>, TRUE_TEXT,
       NEG \o <<" ", "2", ")">> >>

\* the lines derived from formula f, by variant
Variants(f) ==
    { [name |-> "canonical", cut |-> 0],
      [name |-> "parenthesised", cut |-> 0],
      [name |-> "trailing_bad", cut |-> 0] }
    \cup (IF IsAtom(f) \/ f.op = "Negation" THEN {}
          ELSE { [name |-> "missing_operand", cut |-> 0] })
    \cup (IF f \notin CutFormulas THEN {}
          ELSE { [name |-> "bad_after_prefix", cut |-> k] :
                     k \in 0..Len(Render(f)) })
    \cup (IF f \notin CutFormulas THEN {}
          ELSE { [name |-> "truncated", cut |-> k] :
                     k \in 0..(Len(Render(f)) - 1) })
    \cup { [name |-> "trailing", cut |-> k] :
                k \in 1..(IF f \in CutFormulas THEN Len(Tails) ELSE 3) }

LineOf(f, v) ==
    CASE v.name = "canonical" -> Render(f) \o <<NEWLINE>>
      [] v.name = "parenthesised" -> RenderParenthesised(f, FALSE) \o <<NEWLINE>>
      [] v.name = "missing_operand" -> RenderMissingOperand(f) \o <<NEWLINE>>
      [] v.name = "trailing_bad" ->
            Render(f) \o <<" ", BadChar>> \o <<NEWLINE>>
      [] v.name = "truncated" -> SubSeq(Render(f), 1, v.cut) \o <<NEWLINE>>
      [] v.name = "trailing" ->
            Render(f) \o <<" ">> \o Tails[v.cut] \o <<NEWLINE>>
      [] v.name = "bad_after_prefix" ->
            SubSeq(Render(f), 1, v.cut) \o <<BadChar>>
                \o SubSeq(Render(f), v.cut + 1, Len(Render(f))) \o <<NEWLINE>>

NoFormula == [op |-> "None"]
NoVariant == [name |-> "none", cut |-> 0]
NoOutcome == [err |-> "not parsed"]
NoResult == [kind |-> "no call", word |-> NoWord, err |-> "ok"]

----------------------------------------------------------------------------
(* Lines handed to the scanner alone: up to MaxFragments fragments (whole  *)
(* lexemes, cut lexemes, single characters) followed by the terminator.    *)

MaxFragments == 3

Fragments ==
    { TRUE_TEXT, <<"1">>, <<"a">>, <<"(">>, <<")">>, <<" ">>, NEG, VEE,
      <<"\\", "v", "e">>, <<"\\">>, <<"T">>, <<BadChar>> }

RECURSIVE Flatten(_)
Flatten(fs) == IF fs = <<>> THEN <<>> ELSE Head(fs) \o Flatten(Tail(fs))

ScanLines ==
    { Flatten(fs) \o <<NEWLINE>> :
        fs \in UNION { [1..n -> Fragments] : n \in 0..MaxFragments } }

OverAlphabet(line) ==
    \A k \in 1..(Len(line) - 1) : lower(line[k]) \in ALPHABET

----------------------------------------------------------------------------
(* The scanner as an object: any sequence of get_next_token,               *)
(* peek_next_token and peek_peek_next_token calls on one LexicalAnalyser.  *)

\* LexicalAnalyser.__init__
InitScanner ==
    /\ next_character_position = 0
    /\ states = InitialStates
    /\ lastOp = "none"
    /\ lastResult = NoResult
    /\ prePos = 0
    /\ preStates = InitialStates
    /\ firstPeek = NoResult
    /\ outcome = NoOutcome

\* no pair runs step by step
NoWorkers ==
    /\ workers = <<>>
    /\ tables = <<>>

InitScan ==
    /\ content \in ScanLines
    /\ formula = NoFormula
    /\ variant = NoVariant
    /\ InitScanner
    /\ NoWorkers

GetNextToken ==
    /\ variant = NoVariant
    /\ \E r \in {get_next_token(content, next_character_position, states)} :
        /\ next_character_position' = r.pos
        /\ states' = r.sts
        /\ lastOp' = "get_next_token"
        /\ lastResult' = Returned(r)
        /\ prePos' = next_character_position
        /\ preStates' = states
        /\ firstPeek' = IF lastOp = "peek_next_token" THEN firstPeek ELSE NoResult
        /\ UNCHANGED <<content, formula, variant, outcome, workers, tables>>

PeekNextToken ==
    /\ variant = NoVariant
    /\ \E r \in {peek_next_token(content, next_character_position, states)} :
        /\ next_character_position' = r.pos
        /\ states' = r.sts
        /\ lastOp' = "peek_next_token"
        /\ lastResult' = Returned(r)
        /\ prePos' = next_character_position
        /\ preStates' = states
        /\ firstPeek' = IF lastOp = "peek_next_token" THEN firstPeek ELSE Returned(r)
        /\ UNCHANGED <<content, formula, variant, outcome, workers, tables>>

PeekPeekNextToken ==
    /\ variant = NoVariant
    /\ \E r \in {peek_peek_next_token(content, next_character_position, states)} :
        /\ next_character_position' = r.pos
        /\ states' = r.sts
        /\ lastOp' = "peek_peek_next_token"
        /\ lastResult' = Returned(r)
        /\ prePos' = next_character_position
        /\ preStates' = states
        /\ firstPeek' = NoResult
        /\ UNCHANGED <<content, formula, variant, outcome, workers, tables>>

NextScan == GetNextToken \/ PeekNextToken \/ PeekPeekNextToken

SpecScan == InitScan /\ [][NextScan]_vars

----------------------------------------------------------------------------
(* The driver loop: one fresh LexicalAnalyser and Parser per line, one     *)
(* call of Parser.parse.                                                   *)

InitParse ==
    /\ formula \in Formulas
    /\ variant \in Variants(formula)
    /\ content = LineOf(formula, variant)
    /\ InitScanner
    /\ NoWorkers

Parse ==
    /\ formula # NoFormula
    /\ lastOp = "none"
    /\ \E r \in {parse(content, next_character_position, states)} :
        /\ outcome' = [err |-> r.err, node |-> r.node, failed_in |-> r.failed_in]
        /\ next_character_position' = r.pos
        /\ states' = r.sts
        /\ lastOp' = "parse"
        /\ prePos' = next_character_position
        /\ preStates' = states
        /\ UNCHANGED <<content, formula, variant, lastResult, firstPeek,
                       workers, tables>>

NextParse == Parse

SpecParse == InitParse /\ [][NextParse]_vars

----------------------------------------------------------------------------
(* The automata alone: every automaton of the pattern table executes any   *)
(* sequence of alphabet symbols.  The transactions of an automaton are an  *)
(* unordered set, so execute may meet the firing transactions in any       *)
(* order: each automaton moves to the destination of any of them.          *)

\* the states execute(symbol) can leave automaton i in, over the iteration
\* orders of its transaction set
Destinations(i, s, symbol) ==
    IF Firing(i, s, symbol) = {} THEN {s}
    ELSE {t[3] : t \in Firing(i, s, symbol)}

\* the state vectors the six automata can be left in by one symbol
ExecuteOutcomes(sts, symbol) ==
    { <<d1, d2, d3, d4, d5, d6>> :
        d1 \in Destinations(1, sts[1], symbol),
        d2 \in Destinations(2, sts[2], symbol),
        d3 \in Destinations(3, sts[3], symbol),
        d4 \in Destinations(4, sts[4], symbol),
        d5 \in Destinations(5, sts[5], symbol),
        d6 \in Destinations(6, sts[6], symbol) }

ExecuteVariant == [name |-> "execute", cut |-> 0]

InitExecute ==
    /\ content = <<NEWLINE>>
    /\ formula = NoFormula
    /\ variant = ExecuteVariant
    /\ InitScanner
    /\ NoWorkers

\* dfa.execute(symbol) on every automaton of the table
Execute ==
    /\ variant = ExecuteVariant
    /\ \E symbol \in ALPHABET :
        \E executed \in ExecuteOutcomes(states, symbol) :
            /\ states' = executed
            /\ preStates' = states
            /\ lastOp' = "execute"
            /\ lastResult' = [kind |-> "symbol", word |-> <<symbol>>, err |-> "ok"]
            /\ UNCHANGED <<content, next_character_position, prePos,
                           firstPeek, formula, variant, outcome,
                           workers, tables>>

NextExecute == Execute

SpecExecute == InitExecute /\ [][NextExecute]_vars

----------------------------------------------------------------------------
(* Parser.parse step by step.  A run is the record                         *)
(*   [pos, sts, stack, results, outcome, scans]                            *)
(* stack holds the calls still to be made, the next one first; results     *)
(* holds what the calls made so far returned, the latest first; scans      *)
(* lists the token attempts of the last step.  One step is one scanner     *)
(* call of the run and everything the parser does up to its next scanner   *)
(* call.                                                                   *)

\* a token attempt: the automaton states it started from and how it ended
Scan(sts, r) == [start |-> sts, kind |-> r.kind]

\* the run ends: an exception propagates to the caller, or parse() returns
Finish(c, r, scans) ==
    [pos |-> r.pos, sts |-> r.sts, stack |-> <<>>, results |-> c.results,
     outcome |-> [err |-> r.err, node |-> r.node, failed_in |-> r.failed_in],
     scans |-> scans]

\* the call on top of the stack is replaced by the calls in items
Continue(c, pos, sts, items, results, scans) ==
    [pos |-> pos, sts |-> sts, stack |-> items \o Tail(c.stack),
     results |-> results, outcome |-> c.outcome, scans |-> scans]

\* parse(): the dispatch on token = self.scanner.peek_next_token()
StepParseToken(c, token) ==
    IF Unusable(token)
    THEN Finish(c, ScanFailure(token, "parse"), <<Scan(c.sts, token)>>)
    ELSE IF token.kind = "CONSTANT"
         THEN Continue(c, c.pos, token.sts, <<"parse_constant", "FormulaNode">>,
                       c.results, <<Scan(c.sts, token)>>)
    ELSE IF token.kind = "PROPOSITION"
         THEN Continue(c, c.pos, token.sts, <<"parse_proposition", "FormulaNode">>,
                       c.results, <<Scan(c.sts, token)>>)
    ELSE IF token.kind = "OPEN_PARENTHESIS"
         THEN Continue(c, c.pos, token.sts, <<"next_token", "FormulaNode">>,
                       c.results, <<Scan(c.sts, token)>>)
    ELSE Finish(c, Failed(c.pos, token.sts, "SyntaxError", "parse"),
                <<Scan(c.sts, token)>>)

StepParse(line, c) ==
    StepParseToken(c, peek_next_token(line, c.pos, c.sts))

\* the token attempts of peek_peek_next_token: the second one is made
\* unless the first one raised
PeekPeekScans(c, r1, next_token) ==
    IF r1.err # "ok" THEN <<Scan(c.sts, r1)>>
    ELSE <<Scan(c.sts, r1), Scan(r1.sts, next_token)>>

\* parse(): the dispatch on next_token = self.scanner.peek_peek_next_token()
StepNextToken(c, next_token, scans) ==
    IF Unusable(next_token)
    THEN Finish(c, ScanFailure(next_token, "parse"), scans)
    ELSE IF next_token.kind = "UNARY_OPERATOR"
         THEN Continue(c, c.pos, next_token.sts,
                       <<"parse_open_parenthesis", "parse_unary_operator",
                         "parse", "parse_close_parenthesis",
                         "NegationFormulaNode">>,
                       c.results, scans)
         ELSE Continue(c, c.pos, next_token.sts,
                       <<"parse_open_parenthesis", "parse_binary_operator",
                         "parse", "parse", "parse_close_parenthesis",
                         "BinaryFormulaNode">>,
                       c.results, scans)

StepPeekPeekSecond(c, r1, next_token) ==
    StepNextToken(c, next_token, PeekPeekScans(c, r1, next_token))

StepPeekPeekFirst(line, c, r1) ==
    StepPeekPeekSecond(c, r1, KeepCursor(peek_peek_second(line, r1), c.pos))

StepPeekPeek(line, c) ==
    StepPeekPeekFirst(line, c, get_next_token(line, c.pos, c.sts))

\* the parser functions that consume one token
TerminalItems ==
    {"parse_constant", "parse_proposition", "parse_open_parenthesis",
     "parse_close_parenthesis", "parse_unary_operator", "parse_binary_operator"}

\* what the parser function item makes of the token it read
TerminalResult(item, token) ==
    CASE item = "parse_constant" -> parse_constant_token(token)
      [] item = "parse_proposition" -> parse_proposition_token(token)
      [] item = "parse_open_parenthesis" -> parse_open_parenthesis_token(token)
      [] item = "parse_close_parenthesis" -> parse_close_parenthesis_token(token)
      [] item = "parse_unary_operator" -> parse_unary_operator_token(token)
      [] item = "parse_binary_operator" -> parse_binary_operator_token(token)

StepTerminalResult(c, token, r) ==
    IF r.err # "ok" THEN Finish(c, r, <<Scan(c.sts, token)>>)
    ELSE Continue(c, r.pos, r.sts, <<>>, <<r>> \o c.results,
                  <<Scan(c.sts, token)>>)

StepTerminalToken(c, token) ==
    StepTerminalResult(c, token, TerminalResult(Head(c.stack), token))

StepTerminal(line, c) ==
    StepTerminalToken(c, get_next_token(line, c.pos, c.sts))

\* the scanner calls a caller makes on the LexicalAnalyser itself
ScannerCalls == {"get_next_token", "peek_next_token", "peek_peek_next_token"}

ScannerCall(item, line, pos, sts) ==
    CASE item = "get_next_token" -> get_next_token(line, pos, sts)
      [] item = "peek_next_token" -> peek_next_token(line, pos, sts)
      [] item = "peek_peek_next_token" -> peek_peek_next_token(line, pos, sts)

\* a scanner call of the caller: the token is kept, an exception ends the run
StepCallResult(c, r) ==
    IF r.err # "ok"
    THEN Finish(c, Failed(r.pos, r.sts, r.err,
                          "validate_symbol_symbols_in_alphabet"),
                <<Scan(c.sts, r)>>)
    ELSE Continue(c, r.pos, r.sts, <<>>, <<Returned(r)>> \o c.results,
                  <<Scan(c.sts, r)>>)

StepCall(line, c) ==
    StepCallResult(c, ScannerCall(Head(c.stack), line, c.pos, c.sts))

\* the scanner call on top of the stack is made
StepItem(line, c) ==
    CASE Head(c.stack) = "parse" -> StepParse(line, c)
      [] Head(c.stack) = "next_token" -> StepPeekPeek(line, c)
      [] Head(c.stack) \in TerminalItems -> StepTerminal(line, c)
      [] Head(c.stack) \in ScannerCalls -> StepCall(line, c)

RECURSIVE Return(_)

\* parse_binary_formula returns r, or raises
ReturnBinary(c, r) ==
    IF r.err # "ok" THEN Finish(c, r, c.scans)
    ELSE Return(Continue(c, c.pos, c.sts, <<>>,
                         <<r>> \o SubSeq(c.results, 6, Len(c.results)),
                         c.scans))

\* the parser functions whose calls are all made return their node, up to
\* the next scanner call or the return of the outermost parse()
Return(c) ==
    IF c.stack = <<>> THEN c
    ELSE CASE Head(c.stack) = "FormulaNode" ->
                Return(Continue(c, c.pos, c.sts, <<>>,
                                <<parse_return(c.results[1])>>
                                    \o Tail(c.results),
                                c.scans))
           [] Head(c.stack) = "NegationFormulaNode" ->
                Return(Continue(c, c.pos, c.sts, <<>>,
                                <<parse_unary_formula_return(c.results[2],
                                                             c.results[1])>>
                                    \o SubSeq(c.results, 5, Len(c.results)),
                                c.scans))
           [] Head(c.stack) = "BinaryFormulaNode" ->
                ReturnBinary(c, parse_binary_formula_return(c.results[4],
                                 c.results[3], c.results[2], c.results[1]))
           [] Head(c.stack) = "return" -> Finish(c, c.results[1], c.scans)
           [] OTHER -> c

\* one step of a run that has not ended
ParserStep(line, c) == Return(StepItem(line, c))

StepIfRunning(line, c) ==
    IF c.stack = <<>> THEN c ELSE ParserStep(line, c)

\* root_node = parser.parse()
ParseProgram == <<"parse", "return">>

\* a run before its first step, on a fresh LexicalAnalyser
NewRun(program) ==
    [pos |-> 0, sts |-> InitialStates, stack |-> program, results |-> <<>>,
     outcome |-> NoOutcome, scans |-> <<>>]

\* self.patterns = build_patterns() where every LexicalAnalyser is handed
\* one table built once
shared_patterns(k) == 1

\* self.patterns = build_patterns(): the k-th LexicalAnalyser gets the table
\* its own call builds
new_patterns(k) == k

\* a LexicalAnalyser/Parser pair for a line: run is what the pair does on
\* the pattern table it holds, alone what it does when nothing else runs
NewWorker(line, program, k) ==
    [content |-> line, table |-> new_patterns(k),
     run |-> NewRun(program), alone |-> NewRun(program)]

StepsVariant == [name |-> "steps", cut |-> 0]

\* pair k makes its next scanner call, on the automata of its pattern table
WorkerStep(k) ==
    /\ workers[k].run.stack # <<>>
    /\ \E run \in {ParserStep(workers[k].content,
                     [workers[k].run EXCEPT !.sts = tables[workers[k].table]])} :
       \E alone \in {StepIfRunning(workers[k].content, workers[k].alone)} :
            /\ workers' = [workers EXCEPT ![k].run = run, ![k].alone = alone]
            /\ tables' = [tables EXCEPT ![workers[k].table] = run.sts]

Step ==
    /\ variant = StepsVariant
    /\ \E k \in DOMAIN workers : WorkerStep(k)
    /\ UNCHANGED <<content, next_character_position, states, lastOp,
                   lastResult, prePos, preStates, firstPeek, formula,
                   variant, outcome>>

\* the lines one parser is run on step by step: scanner lines and the
\* lines derived from the small formulas
StepLines ==
    ScanLines \cup UNION { {LineOf(f, v) : v \in Variants(f)} : f \in CutFormulas }

InitSteps ==
    /\ content = <<NEWLINE>>
    /\ formula = NoFormula
    /\ variant = StepsVariant
    /\ InitScanner

\* the driver loop on one line
InitParseSteps ==
    /\ InitSteps
    /\ \E line \in StepLines :
            workers = <<NewWorker(line, ParseProgram, 1)>>
    /\ tables = <<InitialStates>>

NextParseSteps == Step

SpecParseSteps == InitParseSteps /\ [][NextParseSteps]_vars

\* the lines and the programs of two pairs that run side by side
WorkerLines ==
    { <<"(">> \o NEG \o <<" ", "1", ")", NEWLINE>>,
      VEE \o <<" ", "2", NEWLINE>>,
      <<"\\", "v", "e", NEWLINE>>,
      <<"(", NEWLINE>>,
      <<"1", " ", "a", "1", NEWLINE>> }

Programs ==
    { ParseProgram,
      <<"peek_next_token", "get_next_token", "get_next_token">>,
      <<"get_next_token", "peek_peek_next_token", "get_next_token">> }

\* two lines, each with its own LexicalAnalyser and caller
InitWorkers ==
    /\ InitSteps
    /\ \E line1 \in WorkerLines, line2 \in WorkerLines :
       \E program1 \in Programs, program2 \in Programs :
            workers = <<NewWorker(line1, program1, 1),
                        NewWorker(line2, program2, 2)>>
    /\ tables = <<InitialStates, InitialStates>>

NextWorkers == Step

SpecWorkers == InitWorkers /\ [][NextWorkers]_vars

Init == InitScan \/ InitParse \/ InitExecute \/ InitParseSteps \/ InitWorkers
Next == NextScan \/ NextParse \/ NextExecute \/ Step
Spec == Init /\ [][Next]_vars

----------------------------------------------------------------------------
(* Properties of Parser.parse, checked under SpecParse                     *)

ParsedLine(name) == lastOp = "parse" /\ variant.name = name

\* C1: round trip.  Parsing the canonical rendering of a formula on a fresh
\* LexicalAnalyser succeeds and returns a tree of the formula's shape: the
\* same connective at every node, the same text at every leaf, the first
\* operand as left child and the second as right child.
RoundTrip ==
    ParsedLine("canonical") =>
        /\ outcome.err = "ok"
        /\ outcome.node.type = "FormulaNode"
        /\ Shape(outcome.node) = formula

\* a binary formula with a negated first operand and a constant second
\* operand has been parsed back
RoundTripWitness ==
    /\ ParsedLine("canonical")
    /\ formula.op = "Implies"
    /\ formula.left.op = "Negation"
    /\ formula.right.op = "Constant"
    /\ outcome.err = "ok"

\* C2 as stated: an operand written "(" atom ")" is parsed as that atom,
\* so "(\neg (1))" gives Negation(Proposition "1") and "(\wedge (true) (2))"
\* gives And(Constant "true", Proposition "2").
ParenthesisedAtomsParsed ==
    (ParsedLine("parenthesised") /\ ~IsAtom(formula)) =>
        /\ outcome.err = "ok"
        /\ Shape(outcome.node) = formula

\* the type of the node the root FormulaNode of a parsed line wraps
RootType == outcome.node.child.type

\* C2 amended: after an open parenthesis the second lookahead token selects
\* the unary production when it is a UnaryOperator and the binary
\* production otherwise; "(\neg 1)" gives Negation(Proposition "1") and
\* "(\wedge true 2)" gives And(Constant "true", Proposition "2"); an operand
\* written "(" atom ")" is handed to the binary production, whose operator
\* read rejects the atom: the parse fails with the syntax error and returns
\* no Formula.
Disambiguation ==
    /\ (ParsedLine("parenthesised") /\ ~IsAtom(formula)) =>
            /\ outcome.err = "SyntaxError"
            /\ outcome.failed_in = "parse_binary_operator"
            /\ outcome.node = NoNode
    /\ (ParsedLine("canonical") /\ formula.op = "Negation") =>
            /\ outcome.err = "ok"
            /\ RootType = "NegationFormulaNode"
    /\ (ParsedLine("canonical") /\ formula.op \in BinaryOps) =>
            /\ outcome.err = "ok"
            /\ RootType = formula.op \o "FormulaNode"

\* "(\neg (1))" has been parsed and rejected
DisambiguationWitness ==
    /\ ParsedLine("parenthesised")
    /\ content = <<"(">> \o NEG \o <<" ", "(", "1", ")", ")", NEWLINE>>
    /\ outcome.err = "SyntaxError"

\* C9 as stated: every line that holds a character outside the alphabet,
\* at any position before the terminator, fails with the alphabet error.
AlphabetErrorOnEveryBadLine ==
    (lastOp = "parse" /\ ~OverAlphabet(content)) =>
        /\ outcome.err = "AlphabetError"
        /\ outcome.node = NoNode

\* C9 amended: when the text before the first character outside the
\* alphabet is a prefix of a canonical rendering (the empty prefix and the
\* whole rendering included) and the character follows it directly, the
\* parse fails with the alphabet error and returns no Formula.  (A line
\* whose offending character comes after a complete formula and a space
\* parses without error.)
AlphabetErrorAfterPrefix ==
    ParsedLine("bad_after_prefix") =>
        /\ outcome.err = "AlphabetError"
        /\ outcome.node = NoNode

\* the offending character directly after the first operand of a binary
\* formula has been reached and reported
AlphabetErrorWitness ==
    /\ ParsedLine("bad_after_prefix")
    /\ formula.op = "And"
    /\ variant.cut = Len(<<"(">> \o WEDGE \o <<" ">> \o Render(formula.left))
    /\ outcome.err = "AlphabetError"

\* C10 as stated: "(" BinaryOp F ")" fails with the syntax error, and the
\* step that fails is parse_close_parenthesis in parse_binary_formula.
MissingOperandFailsAtClose ==
    ParsedLine("missing_operand") =>
        /\ outcome.node = NoNode
        /\ outcome.err = "SyntaxError"
        /\ outcome.failed_in = "parse_close_parenthesis"

\* C10 amended: "(" BinaryOp F ")" fails with the syntax error and returns
\* no Formula; the step that fails is the parse() of the second operand,
\* which finds the close parenthesis as its lookahead token;
\* parse_close_parenthesis is not reached and the close parenthesis is not
\* consumed.
MissingOperandFailsInParse ==
    ParsedLine("missing_operand") =>
        /\ outcome.node = NoNode
        /\ outcome.err = "SyntaxError"
        /\ outcome.failed_in = "parse"
        /\ next_character_position = Len(content) - 2

\* "(\vee (\neg 1))"-like line: one compound operand, then the close
MissingOperandWitness ==
    /\ ParsedLine("missing_operand")
    /\ formula.op = "Or"
    /\ formula.left.op = "Negation"
    /\ outcome.err = "SyntaxError"

\* C13 as stated: truncated input.  A line that is a proper prefix of a
\* formula rendering (the empty line included) returns no Formula and fails
\* with the parser's syntax error, as a token of unexpected kind does.
TruncatedInputSyntaxError ==
    ParsedLine("truncated") =>
        /\ outcome.node = NoNode
        /\ outcome.err = "SyntaxError"

\* C14: trailing content is ignored.  For a formula rendering followed by
\* one space and further characters, Parser.parse does not fail, returns
\* the tree it returns for the rendering alone (the tree of the formula),
\* and leaves the cursor directly after the last character of the
\* rendering.
TrailingContentIgnored ==
    ParsedLine("trailing") =>
        /\ outcome.err = "ok"
        /\ outcome.node =
               parse(Render(formula) \o <<NEWLINE>>, 0, InitialStates).node
        /\ Shape(outcome.node) = formula
        /\ next_character_position = Len(Render(formula))

\* a binary formula followed by a space and a character outside the
\* alphabet has been parsed
TrailingContentWitness ==
    /\ ParsedLine("trailing")
    /\ formula.op = "BiConditional"
    /\ Tails[variant.cut] = <<BadChar>>
    /\ outcome.err = "ok"
    /\ next_character_position = Len(content) - 3

----------------------------------------------------------------------------
(* Properties of the LexicalAnalyser, checked under SpecScan               *)

Returns(op) == lastOp = op /\ lastResult.err = "ok"

\* C3: lookahead purity.  On a line over the alphabet, peek_next_token
\* leaves next_character_position unchanged, and the get_next_token that
\* follows a run of peek_next_token calls returns exactly what the first
\* peek of the run returned.
LookaheadPurity ==
    OverAlphabet(content) =>
        /\ (lastOp = "peek_next_token" => next_character_position = prePos)
        /\ (lastOp = "get_next_token" /\ firstPeek # NoResult) =>
                lastResult = firstPeek

\* C4: lookahead isolation.  After peek_next_token or peek_peek_next_token
\* returns, with a token or with no-token, every automaton of the scanner
\* is in the state it had before the call.
LookaheadIsolation ==
    (Returns("peek_next_token") \/ Returns("peek_peek_next_token")) =>
        states = preStates

\* C5: the text of a Proposition token starts with a digit and continues
\* with letters or digits.
PropositionText ==
    (lastOp = "get_next_token" /\ lastResult.kind = "PROPOSITION") =>
        /\ Head(lastResult.word) \in Digits
        /\ \A k \in 2..Len(lastResult.word) : lastResult.word[k] \in AlphaNum

\* C6: Constant, UnaryOperator and BinaryOperator tokens carry the exact
\* literals.
KeywordText ==
    lastOp = "get_next_token" =>
        /\ lastResult.kind = "CONSTANT" =>
                lastResult.word \in {TRUE_TEXT, FALSE_TEXT}
        /\ lastResult.kind = "UNARY_OPERATOR" => lastResult.word = NEG
        /\ lastResult.kind = "BINARY_OPERATOR" =>
                lastResult.word \in {WEDGE, VEE, RIGHTARROW, LEFTRIGHTARROW}

\* the characters of the line from cursor position a up to, not including,
\* cursor position b, lower-cased
Lowered(line, a, b) == [k \in 1..(b - a) |-> lower(line[a + k])]

\* the first cursor position from pos on whose character is no letter or
\* digit
RunEnd(line, pos) ==
    CHOOSE e \in pos..(Len(line) - 1) :
        /\ lower(line[e + 1]) \notin AlphaNum
        /\ \A k \in pos..(e - 1) : lower(line[k + 1]) \in AlphaNum

\* the cursor is at a digit followed by letters/digits and then by a
\* non-alphanumeric alphabet character or the terminator
AtProposition(line, pos) ==
    /\ lower(line[pos + 1]) \in Digits
    /\ \/ line[RunEnd(line, pos) + 1] = NEWLINE
       \/ lower(line[RunEnd(line, pos) + 1]) \in ALPHABET

\* C7: longest match for propositions.  With the cursor at such a run,
\* get_next_token returns one Proposition token whose text is the whole
\* run and leaves the cursor on the first character after the run.
LongestMatchProposition ==
    (lastOp = "get_next_token" /\ AtProposition(content, prePos)) =>
        /\ lastResult.kind = "PROPOSITION"
        /\ lastResult.word = Lowered(content, prePos, RunEnd(content, prePos))
        /\ next_character_position = RunEnd(content, prePos)

\* the same, for calls that start with every automaton in its initial state
LongestMatchFromInitialStates ==
    (preStates = InitialStates) => LongestMatchProposition

\* the cursor is at the literal, followed by an alphabet character or the
\* terminator
AtLiteral(line, pos, literal) ==
    /\ pos + Len(literal) < Len(line)
    /\ Lowered(line, pos, pos + Len(literal)) = literal
    /\ \/ line[pos + Len(literal) + 1] = NEWLINE
       \/ lower(line[pos + Len(literal) + 1]) \in ALPHABET

\* C8: constant recognition.  With the cursor at "true" or "false",
\* get_next_token returns one Constant token whose text is the literal and
\* does not consume the character after it.
ConstantRecognition ==
    \A literal \in {TRUE_TEXT, FALSE_TEXT} :
        (lastOp = "get_next_token" /\ AtLiteral(content, prePos, literal)) =>
            /\ lastResult.kind = "CONSTANT"
            /\ lastResult.word = literal
            /\ next_character_position = prePos + Len(literal)

\* the same, for calls that start with every automaton in its initial state
ConstantRecognitionFromInitialStates ==
    (preStates = InitialStates) => ConstantRecognition

\* C12 as stated: reset at every token boundary.  Whenever get_next_token
\* returns, with a token or with no-token, every automaton of the pattern
\* table is in its initial state.
ResetAtTokenBoundary ==
    Returns("get_next_token") => states = InitialStates

\* the cursor is at the line terminator, or at one space followed by it
AtEndOfInput(line, pos) ==
    \/ line[pos + 1] = NEWLINE
    \/ line[pos + 1] = " " /\ line[pos + 2] = NEWLINE

\* C15: end of input.  A get_next_token that starts with the cursor at the
\* line terminator, optionally preceded by one space, returns no-token and
\* leaves the cursor on the terminator, where the next call starts at the
\* end of input again: repeated calls keep returning no-token and never
\* move the cursor past the terminator.
EndOfInput ==
    (lastOp = "get_next_token" /\ AtEndOfInput(content, prePos)) =>
        /\ lastResult = [kind |-> "None", word |-> NoWord, err |-> "ok"]
        /\ next_character_position = Len(content) - 1
        /\ AtEndOfInput(content, next_character_position)

\* get_next_token has been called with the cursor already on the terminator
\* of a line that is not empty
EndOfInputWitness ==
    /\ lastOp = "get_next_token"
    /\ Len(content) > 1
    /\ prePos = Len(content) - 1
    /\ lastResult.kind = "None"

\* the last call returned what scan r returns and left what r leaves
SameScan(r) ==
    /\ lastResult = Returned(r)
    /\ next_character_position = r.pos
    /\ states = r.sts

\* C16: separator skipping.  A get_next_token that starts at a space
\* followed by another character returns the same token, and leaves the
\* same cursor and automata, as a call that starts at that character; when
\* the space is followed by a second space, the second space is not skipped:
\* the scan loop starts on it and feeds it to the automata, so from initial
\* automaton states no token is found on a line over the alphabet.
SeparatorSkipping ==
    (lastOp = "get_next_token" /\ content[prePos + 1] = " ") =>
        /\ content[prePos + 2] # " " =>
                SameScan(get_next_token(content, prePos + 1, preStates))
        /\ content[prePos + 2] = " " =>
                /\ SameScan(get_next_token_while(content, prePos + 1,
                                                 preStates, NoWord))
                /\ (preStates = InitialStates /\ OverAlphabet(content)) =>
                        /\ lastResult.kind = "None"
                        /\ next_character_position = Len(content) - 1

\* a token has been returned by a call that started at one space before it
SeparatorSkippingWitness ==
    /\ lastOp = "get_next_token"
    /\ content[prePos + 1] = " "
    /\ content[prePos + 2] = "1"
    /\ lastResult.kind = "PROPOSITION"

\* C18: cursor bound and termination.  On a line over the alphabet every
\* call of get_next_token, peek_next_token and peek_peek_next_token returns
\* (no read outside the line ends it), the cursor of the scanner does not
\* decrease, and it does not exceed the index of the line terminator.
CursorBound ==
    (OverAlphabet(content) /\ lastOp \in {"get_next_token", "peek_next_token",
                                          "peek_peek_next_token"}) =>
        /\ lastResult.err = "ok"
        /\ prePos <= next_character_position
        /\ next_character_position <= Len(content) - 1

\* a token whose extension was stopped by the line terminator
CursorBoundWitness ==
    /\ OverAlphabet(content)
    /\ lastOp = "get_next_token"
    /\ lastResult.kind = "PROPOSITION"
    /\ prePos < next_character_position
    /\ next_character_position = Len(content) - 1

----------------------------------------------------------------------------
(* Properties of the automata, checked under SpecExecute                   *)

\* C17: order-independence of transitions.  In every state an automaton of
\* the pattern table reaches, at most one transaction with that source
\* state accepts any alphabet symbol, so execute(symbol) leaves the same
\* state whatever order the transaction set is iterated in: the state the
\* first firing transaction of the scan gives.
OrderIndependence ==
    /\ \A i \in 1..NumPatterns : \A symbol \in ALPHABET :
            Cardinality(Firing(i, states[i], symbol)) <= 1
    /\ lastOp = "execute" =>
            states = ExecutedAll(preStates, lastResult.word[1])

\* the Proposition automaton, in the state that has two guarded
\* transactions, has executed a letter
OrderIndependenceWitness ==
    /\ lastOp = "execute"
    /\ preStates[2] = 1
    /\ lastResult.word = <<"a">>
    /\ states[2] = 1

----------------------------------------------------------------------------
(* Properties of a parse taken step by step, checked under SpecParseSteps  *)

\* the run of the one pair
TheRun == workers[1].run

\* a run that has ended agrees with Parser.parse taken as one operation
StepsAgreeWithParse ==
    TheRun.stack = <<>> =>
        LET r == parse(workers[1].content, 0, InitialStates)
        IN  /\ TheRun.outcome =
                   [err |-> r.err, node |-> r.node, failed_in |-> r.failed_in]
            /\ TheRun.pos = r.pos
            /\ TheRun.sts = r.sts

\* C19: clean automata inside a parse.  Every token attempt a run of
\* Parser.parse starts (through peek_next_token, through either scan of
\* peek_peek_next_token, or through get_next_token) begins with all six
\* automata in their initial state; an attempt that ends with no-token or
\* with an exception is the last scanner call of the run, which ends
\* without a Formula.
CleanAutomataInParse ==
    \A j \in DOMAIN TheRun.scans :
        /\ TheRun.scans[j].start = InitialStates
        /\ TheRun.scans[j].kind \in {"None", "Error"} =>
                /\ j = Len(TheRun.scans)
                /\ TheRun.stack = <<>>
                /\ TheRun.outcome.err # "ok"

\* a parse that went through an operator and an operand and was ended by
\* the no-token of the second scan of peek_peek_next_token
CleanAutomataWitness ==
    /\ Len(TheRun.scans) = 2
    /\ TheRun.scans[2].kind = "None"
    /\ Len(TheRun.results) >= 2
    /\ TheRun.stack = <<>>

----------------------------------------------------------------------------
(* Properties of two pairs side by side, checked under SpecWorkers         *)

\* C11: independence across lines.  Under every interleaving of the scanner
\* calls of two LexicalAnalyser/Parser pairs, each pair returns the tokens
\* and the parse outcome, and has the cursor and the automaton states, that
\* it has when it runs alone.
Independence ==
    \A k \in DOMAIN workers :
        /\ workers[k].run = workers[k].alone
        /\ tables[workers[k].table] = workers[k].alone.sts

\* both pairs are in the middle of their runs, one with automata that a
\* no-token scan left off their initial states
IndependenceWitness ==
    /\ workers[1].run.stack # <<>> /\ workers[1].run.results # <<>>
    /\ workers[2].run.stack # <<>> /\ workers[2].run.results # <<>>
    /\ tables[1] # InitialStates
    /\ tables[2] = InitialStates

============================================================================
